---- MODULE Spec2Model ----
(***************************************************************************)
(* Model of the Amharic NER preparation scripts:                           *)
(*   scripts/amharic_text_processor.py  (AmharicTextPreprocessor)          *)
(*   scripts/amharic_labler.py          (AmharicNERLabeler)                *)
(*                                                                         *)
(* A Python str is a sequence of Unicode code points (naturals).  A Python *)
(* value is a record [type, val]; the outcome of a call is a record        *)
(* [exc, val]: exc = "none" when the call returned val, otherwise the name *)
(* of the exception that left the call.                                    *)
(***************************************************************************)
EXTENDS Integers, Sequences, FiniteSets, TLC

VARIABLES op, arg, ret, preprocessed, file, df

vars == <<op, arg, ret, preprocessed, file, df>>

----------------------------------------------------------------------------
(* Bounds of the explored inputs.                                          *)

MaxLen == 4

MaxField == 1

MaxMsg == 3

MaxTokens == 2

MaxDocs == 2

MaxDocLen == 2

MaxRows == 2

MaxLabel == 2

----------------------------------------------------------------------------
(* Python values and call outcomes.                                        *)

Str(s) == [type |-> "str", val |-> s]

NaN == [type |-> "float", val |-> <<>>]

None == [type |-> "NoneType", val |-> <<>>]

PyInt(n) == [type |-> "int", val |-> <<n>>]

List(xs) == [type |-> "list", val |-> xs]

isinstance_str(v) == v.type = "str"

Return(v) == [exc |-> "none", val |-> v]

Raise(e) == [exc |-> e, val |-> None]

\* pd.isna on a scalar: True for NaN and None, False for a str.
pd_isna(v) == v.type \in {"float", "NoneType"}

----------------------------------------------------------------------------
(* Character classes.                                                      *)

\* The class of self.punctuation: U+1360..U+137B, U+137F and the ASCII comma.
punctuation == {44} \cup (4960..4987) \cup {4991}

\* The class of self.amharic_pattern: U+1200..U+137F.
amharic_pattern == 4608..4991

\* What \s matches in a str pattern.
Whitespace == {9, 10, 11, 12, 13, 28, 29, 30, 31, 32, 133, 160, 5760}
                \cup (8192..8202) \cup {8232, 8233, 8239, 8287, 12288}

\* What \d matches among the characters explored (Unicode category Nd; no
\* character of U+1200..U+137F is in it: the Ethiopic numerals are No).
Digits == 48..57

\* What "." matches without re.DOTALL: anything but a line feed.
Dot(c) == c # 10

----------------------------------------------------------------------------
(* Sequence helpers.                                                       *)

Min(S) == CHOOSE x \in S : \A y \in S : x <= y

Max(S) == CHOOSE x \in S : \A y \in S : x >= y

Slice(s, a, b) == [i \in 1..(b - a) |-> s[a + i - 1]]

RECURSIVE Flatten(_)
Flatten(ss) == IF ss = <<>> THEN <<>> ELSE Head(ss) \o Flatten(Tail(ss))

Range(f) == {f[i] : i \in DOMAIN f}

\* re.findall of a character class C repeated (C+): the maximal runs.
FindAll(s, C) ==
    LET n == Len(s)
        starts == {i \in 1..n : s[i] \in C /\ (i = 1 \/ s[i - 1] \notin C)}
        EndOf(i) == Min({j \in i..n : j = n \/ s[j + 1] \notin C})
        Kth(k) == CHOOSE i \in starts : Cardinality({j \in starts : j < i}) = k - 1
    IN  [k \in 1..Cardinality(starts) |-> Slice(s, Kth(k), EndOf(Kth(k)) + 1)]

\* ' '.join(words)
join_space(words) ==
    Flatten([k \in 1..Len(words) |-> IF k = 1 THEN words[k] ELSE <<32>> \o words[k]])

\* str.strip()
strip(s) ==
    LET keep == {i \in 1..Len(s) : s[i] \notin Whitespace}
    IN  IF keep = {} THEN <<>> ELSE Slice(s, Min(keep), Max(keep) + 1)

\* re.sub(r'\s+', ' ', text)
re_sub_spaces(text) ==
    LET IsWs(c) == c \in Whitespace
        n == Len(text)
        \* every maximal run, of either kind, in order
        starts == {i \in 1..n : i = 1 \/ (IsWs(text[i]) # IsWs(text[i - 1]))}
        EndOf(i) == Min({j \in i..n : j = n \/ (IsWs(text[j + 1]) # IsWs(text[i]))})
        Kth(k) == CHOOSE i \in starts : Cardinality({j \in starts : j < i}) = k - 1
    IN  Flatten([k \in 1..Cardinality(starts) |->
                   IF IsWs(text[Kth(k)]) THEN <<32>>
                   ELSE Slice(text, Kth(k), EndOf(Kth(k)) + 1)])

\* Faulty variant: the class holds the ASCII comma only.
re_sub_punctuation_ascii(text) == SelectSeq(text, LAMBDA c : c # 44)

\* re.sub(self.punctuation, '', text)
re_sub_punctuation(text) == SelectSeq(text, LAMBDA c : c \notin punctuation)

----------------------------------------------------------------------------
(* AmharicTextPreprocessor                                                 *)

\* Faulty variant: "nothing survived" is reported as "no value".
normalize_text_conflating(text) ==
    IF ~isinstance_str(text) THEN NaN
    ELSE LET t1 == re_sub_punctuation(text.val)
             t2 == strip(re_sub_spaces(t1))
             amharic_words == FindAll(t2, amharic_pattern)
         IN  IF amharic_words = <<>> THEN NaN ELSE Str(join_space(amharic_words))

\* Faulty variant: the punctuation is removed last, after the words were joined.
normalize_text_late_punctuation(text) ==
    IF ~isinstance_str(text) THEN NaN
    ELSE LET t2 == strip(re_sub_spaces(text.val))
             amharic_words == FindAll(t2, amharic_pattern)
         IN  Str(re_sub_punctuation(join_space(amharic_words)))

\* Faulty variant: the Amharic words are not extracted (the text is only cleaned).
normalize_text_unfiltered(text) ==
    IF ~isinstance_str(text) THEN NaN
    ELSE Str(strip(re_sub_spaces(re_sub_punctuation(text.val))))

normalize_text(text) ==
    IF ~isinstance_str(text) THEN NaN
    ELSE LET t1 == re_sub_punctuation(text.val)
             t2 == strip(re_sub_spaces(t1))
             amharic_words == FindAll(t2, amharic_pattern)
         IN  Str(join_space(amharic_words))

\* nltk.word_tokenize on text made of Ethiopic letters and single spaces (all
\* normalize_text returns): no sentence or punctuation rule applies and the
\* tokens are the whitespace-separated words.
word_tokenize(s) == FindAll(s, Range(s) \ Whitespace)

tokenize_text(text) ==
    IF ~isinstance_str(text) THEN NaN
    ELSE List(word_tokenize(text.val))

preprocess(text) ==
    LET normalized_text == normalize_text(text)
    IN  IF pd_isna(normalized_text) THEN NaN
        ELSE tokenize_text(normalized_text)

\* The literals of the metadata pattern: "Sender:", "Timestamp:", "Message:".
SenderLit == <<83, 101, 110, 100, 101, 114, 58>>

TimestampLit == <<84, 105, 109, 101, 115, 116, 97, 109, 112, 58>>

MessageLit == <<77, 101, 115, 115, 97, 103, 101, 58>>

\* The literal lit stands in s at position p.
LitAt(s, p, lit) ==
    /\ p + Len(lit) - 1 <= Len(s)
    /\ \A i \in 1..Len(lit) : s[p + i - 1] = lit[i]

\* Where a run of \s* (resp. of ".") that starts at p can stop at the latest.
WsEnd(s, p) == Min({q \in p..(Len(s) + 1) : q = Len(s) + 1 \/ s[q] \notin Whitespace})

DotEnd(s, p) == Min({q \in p..(Len(s) + 1) : q = Len(s) + 1 \/ ~Dot(s[q])})

\* ",\s*<lit>" matches at b and stops at the returned positions.
CommaLit(s, b, lit) ==
    IF b <= Len(s) /\ s[b] = 44
    THEN {c + Len(lit) : c \in {c \in (b + 1)..WsEnd(s, b + 1) : LitAt(s, c, lit)}}
    ELSE {}

\* re.match of
\*   Sender:\s*(?P<sender>.*?),\s*Timestamp:\s*(?P<timestamp>.*?),\s*Message:\s*(?P<message>.*)
\* at the start of s, by the matcher's order of attempts: a greedy \s* takes the
\* longest run that lets the rest match, a lazy .*? the shortest. The result is
\* the set of matches found first: empty (no match) or one record of groups.
re_match_metadata(s) ==
    LET \* from p2, just after "Timestamp:" : \s*(.*?),\s*Message:\s*(.*)
        B2(a) == {b \in a..DotEnd(s, a) : CommaLit(s, b, MessageLit) # {}}
        A2(p2) == {a \in p2..WsEnd(s, p2) : B2(a) # {}}
        \* from p1, just after "Sender:" : \s*(.*?),\s*Timestamp: and the rest
        C1(b) == {c \in CommaLit(s, b, TimestampLit) : A2(c) # {}}
        B1(a) == {b \in a..DotEnd(s, a) : C1(b) # {}}
        A1(p1) == {a \in p1..WsEnd(s, p1) : B1(a) # {}}
        p1 == Len(SenderLit) + 1
    IN  IF ~LitAt(s, 1, SenderLit) \/ A1(p1) = {} THEN {}
        ELSE LET a1 == Max(A1(p1))
                 b1 == Min(B1(a1))
                 c1 == Max(C1(b1))
                 a2 == Max(A2(c1))
                 b2 == Min(B2(a2))
                 c2 == Max(CommaLit(s, b2, MessageLit))
                 a3 == WsEnd(s, c2)
                 b3 == DotEnd(s, a3)
             IN  {[sender |-> Str(Slice(s, a1, b1)),
                   timestamp |-> Str(Slice(s, a2, b2)),
                   message |-> Str(Slice(s, a3, b3))]}

extract_metadata(raw_text) ==
    IF ~isinstance_str(raw_text)
    THEN [sender |-> NaN, timestamp |-> NaN, message |-> NaN]
    ELSE LET match == re_match_metadata(raw_text.val)
         IN  IF match # {} THEN CHOOSE g \in match : TRUE
             ELSE [sender |-> NaN, timestamp |-> NaN, message |-> raw_text]

\* One row of preprocess_dataframe's metadata_df: preprocess_row(row).
preprocess_row(row) ==
    LET metadata == extract_metadata(row)
    IN  [sender |-> metadata.sender,
         timestamp |-> metadata.timestamp,
         message |-> metadata.message,
         preprocessed_message |-> preprocess(metadata.message)]

\* A DataFrame is [type, val] with val = [index, rows]: the row labels in row
\* order, and per row the record of its cells. The input table has the one
\* column "text".
DataFrame(index, rows) == [type |-> "DataFrame", val |-> [index |-> index, rows |-> rows]]

\* The position of label l in index (labels are unique).
PosOf(index, l) == CHOOSE i \in DOMAIN index : index[i] = l

\* Index.union(other, sort=False): the left labels in order, then the right
\* labels the left does not have, in order.
index_union(left, right) == left \o SelectSeq(right, LAMBDA l : l \notin Range(left))

\* preprocess_dataframe(df, text_column): metadata_df is built from a plain
\* list, so its index is 0..n-1 whatever df's is; pd.concat(axis=1) joins the
\* two tables on their row labels (outer join), a missing side giving NaN.
preprocess_dataframe(frame) ==
    LET index == frame.val.index
        rows == frame.val.rows
        n == Len(rows)
        metadata_index == [i \in 1..n |-> i - 1]
        metadata_rows == [i \in 1..n |-> preprocess_row(rows[i].text)]
        missing == [sender |-> NaN, timestamp |-> NaN, message |-> NaN,
                    preprocessed_message |-> NaN]
        union == index_union(index, metadata_index)
        Left(l) == IF l \in Range(index) THEN rows[PosOf(index, l)].text ELSE NaN
        Right(l) == IF l \in Range(metadata_index)
                    THEN metadata_rows[PosOf(metadata_index, l)] ELSE missing
    IN  DataFrame(union,
                  [k \in 1..Len(union) |->
                     [text |-> Left(union[k]),
                      sender |-> Right(union[k]).sender,
                      timestamp |-> Right(union[k]).timestamp,
                      message |-> Right(union[k]).message,
                      preprocessed_message |-> Right(union[k]).preprocessed_message]])

----------------------------------------------------------------------------
(* AmharicNERLabeler                                                       *)

\* re.compile(pattern, flags): flags must be an int (or RegexFlag); the
\* compiler computes flags & SRE_FLAG_..., which raises TypeError for a str.
re_compile(pattern, flags) ==
    IF flags.type = "int" THEN Return([type |-> "re.Pattern", val |-> pattern.val])
    ELSE Raise("TypeError")

\* The source of the price pattern, \d+[\s]*ብር, and the second argument the
\* constructor hands to re.compile: the str ዋጋ.
price_pattern_source == Str(<<92, 100, 43, 91, 92, 115, 93, 42, 4709, 4653>>)

price_pattern_flags == Str(<<4811, 4875>>)

\* አዲስ ቦሌ ቡልጋሪ በረራ
location_list == << <<4768, 4850, 4661>>, <<4710, 4620>>,
                    <<4705, 4621, 4875, 4650>>, <<4704, 4648, 4651>> >>

\* ምርት ምርቶች
product_keywords == << <<4637, 4653, 4725>>, <<4637, 4653, 4726, 4733>> >>

\* AmharicNERLabeler(): __init__ sets the three attributes in order; an
\* exception in the first leaves no object.
AmharicNERLabeler ==
    LET compiled == re_compile(price_pattern_source, price_pattern_flags)
    IN  IF compiled.exc # "none" THEN compiled
        ELSE Return([type |-> "AmharicNERLabeler",
                     val |-> [price_pattern |-> compiled.val,
                              location_list |-> location_list,
                              product_keywords |-> product_keywords]])

\* re.match(self.price_pattern, token): one or more digits, any white space,
\* then ብር, from the start of the token.
re_match_price(token) ==
    \E d \in 1..Len(token) : \E w \in 0..Len(token) :
        /\ \A i \in 1..d : token[i] \in Digits
        /\ d + w <= Len(token)
        /\ \A i \in (d + 1)..(d + w) : token[i] \in Whitespace
        /\ LitAt(token, d + w + 1, <<4709, 4653>>)

\* The label of one token: the if/elif chain of label_tokens.
label_of(self, token) ==
    IF re_match_price(token) THEN "B-PRICE"
    ELSE IF token \in Range(self.val.product_keywords) THEN "B-Product"
    ELSE IF token \in Range(self.val.location_list) THEN "B-LOC"
    ELSE "O"

\* label_tokens(self, tokens): a list is walked token by token, a str character
\* by character; a float (NaN) or None is not iterable.
label_tokens(self, tokens) ==
    IF tokens.type = "list"
    THEN Return(List([i \in 1..Len(tokens.val) |->
                        <<tokens.val[i], label_of(self, tokens.val[i])>>]))
    ELSE IF tokens.type = "str"
    THEN Return(List([i \in 1..Len(tokens.val) |->
                        << <<tokens.val[i]>>, label_of(self, <<tokens.val[i]>>) >>]))
    ELSE Raise("TypeError")

\* label_dataframe(self, df, 'preprocessed_message'): Series.apply calls
\* label_tokens on every cell; the first exception leaves df as it was.
label_dataframe(self, frame) ==
    LET rows == frame.val.rows
        labeled == [i \in 1..Len(rows) |-> label_tokens(self, rows[i].preprocessed_message)]
        failed == {i \in 1..Len(rows) : labeled[i].exc # "none"}
    IN  IF failed # {} THEN Raise(labeled[Min(failed)].exc)
        ELSE Return(DataFrame(frame.val.index,
                       [i \in 1..Len(rows) |->
                           [text |-> rows[i].text,
                            sender |-> rows[i].sender,
                            timestamp |-> rows[i].timestamp,
                            message |-> rows[i].message,
                            preprocessed_message |-> rows[i].preprocessed_message,
                            Labeled |-> labeled[i].val]]))

\* The characters of a label, as the f-string writes them.
label_chars(label) ==
    CASE label = "B-PRICE" -> <<66, 45, 80, 82, 73, 67, 69>>
      [] label = "B-Product" -> <<66, 45, 80, 114, 111, 100, 117, 99, 116>>
      [] label = "B-LOC" -> <<66, 45, 76, 79, 67>>
      [] label = "O" -> <<79>>

\* What save_conll_format writes for one row: "<token> <label>\n" per pair,
\* then "\n".
conll_row(labeled) ==
    Flatten([i \in 1..Len(labeled) |->
               labeled[i][1] \o <<32>> \o label_chars(labeled[i][2]) \o <<10>>])
        \o <<10>>

\* save_conll_format(self, labeled_data, file_path): the file is opened for
\* writing (emptied) and the rows are written in order; a 'Labeled' cell that
\* is not iterable raises after the rows before it were written. The result is
\* the outcome with the file's content as its value.
save_conll_format(self, labeled_data) ==
    LET rows == labeled_data.val.rows
        bad == {i \in 1..Len(rows) : rows[i].Labeled.type # "list"}
        last == IF bad = {} THEN Len(rows) ELSE Min(bad) - 1
        text == Flatten([i \in 1..last |-> conll_row(rows[i].Labeled.val)])
    IN  [exc |-> IF bad = {} THEN "none" ELSE "TypeError", val |-> Str(text)]

----------------------------------------------------------------------------
(* Inputs.                                                                 *)

\* ብ ር ። , space line-feed 1
Alphabet == {4709, 4653, 4962, 44, 32, 10, 49}

Strings == UNION {[1..n -> Alphabet] : n \in 0..MaxLen}

NonStrings == {NaN, None, PyInt(7)}

Values == {Str(s) : s \in Strings} \cup NonStrings

NormalizedValues == {normalize_text(v) : v \in Values}

\* Lines of the shape "Sender: <s>, Timestamp: <t>, Message: <m>": s and t
\* without comma or white space, m any text that starts and ends with a visible
\* character.
ShapedLine(s, t, m) ==
    SenderLit \o <<32>> \o s \o <<44, 32>> \o TimestampLit \o <<32>> \o t
        \o <<44, 32>> \o MessageLit \o <<32>> \o m

\* a 1
FieldAlphabet == {97, 49}

Fields == UNION {[1..n -> FieldAlphabet] : n \in 0..MaxField}

\* ብ , space line-feed
MsgAlphabet == {4709, 44, 32, 10}

Messages == {m \in UNION {[1..n -> MsgAlphabet] : n \in 0..MaxMsg} :
                m = <<>> \/ (m[1] \notin Whitespace /\ m[Len(m)] \notin Whitespace)}

ShapedLines == {Str(ShapedLine(s, t, m)) : s \in Fields, t \in Fields, m \in Messages}

\* Lines out of the shape: the first character missing, and no Timestamp part.
UnshapedLines ==
    {Str(Tail(ShapedLine(s, s, m))) : s \in Fields, m \in Messages}
    \cup {Str(SenderLit \o <<32>> \o s \o <<44, 32>> \o MessageLit \o <<32>> \o m) :
             s \in Fields, m \in Messages}

RawLines == ShapedLines \cup UnshapedLines \cup Values

\* Tokens handed to label_tokens: the configured locations and keywords,
\* 100ብር, 1 ብር, ብር, ብር1, xyz and the empty token.
TokenPool ==
    Range(location_list) \cup Range(product_keywords)
    \cup {<<49, 48, 48, 4709, 4653>>, <<49, 32, 4709, 4653>>, <<4709, 4653>>,
          <<4709, 4653, 49>>, <<120, 121, 122>>, <<>>}

\* አዲስ ቦሌ 100ብር ምርት xyz
ExampleTokens ==
    << <<4768, 4850, 4661>>, <<4710, 4620>>, <<49, 48, 48, 4709, 4653>>,
       <<4637, 4653, 4725>>, <<120, 121, 122>> >>

TokenLists ==
    {List(t) : t \in UNION {[1..n -> TokenPool] : n \in 0..MaxTokens}}
    \cup {List(ExampleTokens)}

\* Labeled documents handed to save_conll_format: rows whose 'Labeled' cell is
\* a list of (token, label) pairs, under the default index.
LabeledPairs == {<<<<4709, 4653>>, "O">>, <<<<4710, 4620>>, "B-LOC">>}

Documents == UNION {[1..n -> LabeledPairs] : n \in 0..MaxDocLen}

LabeledFrame(docs) ==
    DataFrame([i \in 1..Len(docs) |-> i - 1],
              [i \in 1..Len(docs) |-> [Labeled |-> List(docs[i])]])

LabeledFrames == {LabeledFrame(docs) : docs \in UNION {[1..n -> Documents] : n \in 0..MaxDocs}}

\* The raw tables of the batch pipeline: 1ብር, a shaped line with message ብር,
\* the empty text, and NaN (a missing text); the row labels are the default
\* 0..n-1 or any other sequence of distinct labels.
PipelineTexts ==
    {Str(<<49, 4709, 4653>>), Str(ShapedLine(<<97>>, <<49>>, <<4709, 4653>>)),
     Str(<<>>), NaN}

Indexes(n) == {ix \in [1..n -> 0..MaxLabel] : \A i, j \in 1..n : ix[i] = ix[j] => i = j}

InputFrames ==
    UNION {{DataFrame(ix, [i \in 1..n |-> [text |-> texts[i]]]) :
               ix \in Indexes(n), texts \in [1..n -> PipelineTexts]} : n \in 1..MaxRows}

----------------------------------------------------------------------------
(* The calls a client makes on fresh objects: Init draws the argument, one *)
(* action per call applies the operation to it.                            *)

Init ==
    /\ op = "none"
    /\ arg \in RawLines \cup TokenLists \cup LabeledFrames
    /\ ret = Return(None)
    /\ preprocessed = None
    /\ file = None
    /\ df = None

NormalizeText ==
    /\ op = "none"
    /\ arg \in Values
    /\ op' = "normalize_text"
    /\ ret' = Return(normalize_text(arg))
    /\ UNCHANGED <<arg, preprocessed, file, df>>

TokenizeText ==
    /\ op = "none"
    /\ arg \in NormalizedValues \cup NonStrings
    /\ op' = "tokenize_text"
    /\ ret' = Return(tokenize_text(arg))
    /\ UNCHANGED <<arg, preprocessed, file, df>>

Preprocess ==
    /\ op = "none"
    /\ arg \in Values
    /\ op' = "preprocess"
    /\ ret' = Return(preprocess(arg))
    /\ preprocessed' = preprocess(arg)
    /\ UNCHANGED <<arg, file, df>>

ExtractMetadata ==
    /\ op = "none"
    /\ arg \in RawLines
    /\ op' = "extract_metadata"
    /\ ret' = Return(extract_metadata(arg))
    /\ UNCHANGED <<arg, preprocessed, file, df>>

\* labeler = AmharicNERLabeler()
NewLabeler ==
    /\ op = "none"
    /\ arg = None
    /\ op' = "AmharicNERLabeler"
    /\ ret' = AmharicNERLabeler
    /\ UNCHANGED <<arg, preprocessed, file, df>>

\* AmharicNERLabeler().label_tokens(arg)
LabelTokens ==
    /\ op = "none"
    /\ arg \in TokenLists
    /\ op' = "label_tokens"
    /\ ret' = LET labeler == AmharicNERLabeler
              IN  IF labeler.exc # "none" THEN labeler
                  ELSE label_tokens(labeler.val, arg)
    /\ UNCHANGED <<arg, preprocessed, file, df>>

\* After preprocessed = pre.preprocess(arg): AmharicNERLabeler().label_tokens(preprocessed)
LabelPreprocessed ==
    /\ op = "preprocess"
    /\ op' = "label_preprocessed"
    /\ ret' = LET labeler == AmharicNERLabeler
              IN  IF labeler.exc # "none" THEN labeler
                  ELSE label_tokens(labeler.val, preprocessed)
    /\ UNCHANGED <<arg, preprocessed, file, df>>

\* AmharicNERLabeler().save_conll_format(arg, file_path)
SaveConllFormat ==
    /\ op = "none"
    /\ arg \in LabeledFrames
    /\ op' = "save_conll_format"
    /\ LET labeler == AmharicNERLabeler
           saved == save_conll_format(labeler.val, arg)
       IN  IF labeler.exc # "none"
           THEN ret' = labeler /\ file' = file
           ELSE ret' = [exc |-> saved.exc, val |-> None] /\ file' = saved.val
    /\ UNCHANGED <<arg, preprocessed, df>>

Next ==
    \/ NormalizeText
    \/ TokenizeText
    \/ Preprocess
    \/ ExtractMetadata
    \/ NewLabeler
    \/ LabelTokens
    \/ LabelPreprocessed
    \/ SaveConllFormat

Spec == Init /\ [][Next]_vars

----------------------------------------------------------------------------
(* The batch pipeline on one table: df = pre.preprocess_dataframe(df,      *)
(* 'text'), then AmharicNERLabeler().label_dataframe(df,                   *)
(* 'preprocessed_message'). arg keeps the raw table. An exception ends the *)
(* run.                                                                    *)

InitPipeline ==
    /\ op = "none"
    /\ arg \in InputFrames
    /\ ret = Return(None)
    /\ preprocessed = None
    /\ file = None
    /\ df = arg

PreprocessDataframe ==
    /\ op = "none"
    /\ op' = "preprocess_dataframe"
    /\ df' = preprocess_dataframe(df)
    /\ ret' = Return(None)
    /\ UNCHANGED <<arg, preprocessed, file>>

LabelDataframe ==
    /\ op = "preprocess_dataframe"
    /\ op' = "label_dataframe"
    /\ LET labeler == AmharicNERLabeler
           labeled == label_dataframe(labeler.val, df)
       IN  IF labeler.exc # "none"
           THEN ret' = labeler /\ df' = df
           ELSE IF labeled.exc # "none"
           THEN ret' = labeled /\ df' = df
           ELSE ret' = Return(None) /\ df' = labeled.val
    /\ UNCHANGED <<arg, preprocessed, file>>

NextPipeline == PreprocessDataframe \/ LabelDataframe

SpecPipeline == InitPipeline /\ [][NextPipeline]_vars

----------------------------------------------------------------------------
(* Properties.                                                             *)

\* Equality of two Python values.
Same(v, w) == v.type = w.type /\ v.val = w.val

\* C1: after AmharicNERLabeler().label_tokens(tokens) on a list of string
\* tokens, the call has returned one (token, tag) pair per token, in the order
\* of the input, the tag decided by first match: price pattern -> "B-PRICE",
\* else product keyword -> "B-Product", else location -> "B-LOC", else "O"; the
\* tokens አዲስ ቦሌ 100ብር ምርት xyz get B-LOC B-LOC B-PRICE B-Product O.
C1_LabelsByFirstMatch ==
    (op = "label_tokens" /\ arg.type = "list") =>
        /\ ret.exc = "none"
        /\ ret.val.type = "list"
        /\ Len(ret.val.val) = Len(arg.val)
        /\ \A i \in 1..Len(arg.val) :
              /\ ret.val.val[i][1] = arg.val[i]
              /\ ret.val.val[i][2] =
                    IF re_match_price(arg.val[i]) THEN "B-PRICE"
                    ELSE IF arg.val[i] \in Range(product_keywords) THEN "B-Product"
                    ELSE IF arg.val[i] \in Range(location_list) THEN "B-LOC"
                    ELSE "O"
        /\ arg.val = ExampleTokens =>
              [i \in 1..Len(ret.val.val) |-> ret.val.val[i][2]]
                 = <<"B-LOC", "B-LOC", "B-PRICE", "B-Product", "O">>

\* C2: a batch in which some record's text is not a string goes through
\* preprocess_dataframe and label_dataframe without an exception, the malformed
\* record carried as NaN and every well-formed record labeled.
C2_BatchSurvivesMalformedRow ==
    (op = "label_dataframe"
       /\ \E i \in 1..Len(arg.val.rows) : ~isinstance_str(arg.val.rows[i].text)) =>
        /\ ret.exc = "none"
        /\ \A i \in 1..Len(df.val.rows) :
              isinstance_str(df.val.rows[i].text) => df.val.rows[i].Labeled.type = "list"

\* C3: the labeler raises no error: constructing AmharicNERLabeler succeeds, and
\* label_tokens on a list of string tokens returns normally.
C3_LabelerRaisesNothing ==
    /\ op = "AmharicNERLabeler" => ret.exc = "none" /\ ret.val.type = "AmharicNERLabeler"
    /\ (op = "label_tokens" /\ arg.type = "list") => ret.exc = "none"

\* C4: normalize_text, tokenize_text and preprocess return NaN, without raising,
\* exactly when the input is not a string; for a string normalize_text returns a
\* string (empty when nothing survives) and tokenize_text and preprocess a list
\* of tokens (empty for a text reduced to nothing).
C4_SentinelOnlyForNonStrings ==
    /\ op = "normalize_text" =>
          /\ ret.exc = "none"
          /\ ret.val.type = (IF isinstance_str(arg) THEN "str" ELSE "float")
    /\ op \in {"tokenize_text", "preprocess"} =>
          /\ ret.exc = "none"
          /\ ret.val.type = (IF isinstance_str(arg) THEN "list" ELSE "float")

\* A text made of punctuation, digits and white space only went through
\* preprocess and came back as the empty list.
C4_Witness ==
    /\ op = "preprocess"
    /\ isinstance_str(arg) /\ Len(arg.val) > 0
    /\ Same(ret.val, List(<<>>))

\* C5: normalize_text is idempotent: normalizing its result changes nothing.
C5_NormalizeIdempotent ==
    (op = "normalize_text" /\ isinstance_str(arg)) => Same(normalize_text(ret.val), ret.val)

\* normalize_text changed its input and left something.
C5_Witness ==
    /\ op = "normalize_text"
    /\ isinstance_str(arg)
    /\ ret.val.val # arg.val
    /\ ret.val.val # <<>>

\* C6: what normalize_text returns for a string holds only characters of
\* U+1200..U+137F and single spaces (none leading, none trailing, no two
\* adjacent), and no character of the punctuation class.
C6_NormalizedAlphabet ==
    (op = "normalize_text" /\ isinstance_str(arg)) =>
        LET out == ret.val.val
        IN  /\ \A i \in 1..Len(out) :
                  /\ out[i] \in amharic_pattern \cup {32}
                  /\ out[i] \notin punctuation
                  /\ out[i] = 32 => (1 < i /\ i < Len(out) /\ out[i + 1] # 32)

\* A text with an Ethiopic punctuation mark and a foreign character between
\* Amharic letters was normalized to words separated by a space.
C6_Witness ==
    /\ op = "normalize_text"
    /\ isinstance_str(arg)
    /\ \E i \in 1..Len(arg.val) : arg.val[i] \in punctuation \cap amharic_pattern
    /\ \E i \in 1..Len(arg.val) : arg.val[i] \in Digits
    /\ \E i \in 1..Len(ret.val.val) : ret.val.val[i] = 32

\* The parts s, t, m of a line "Sender: <s>, Timestamp: <t>, Message: <m>" with
\* no comma in s and t, read off the line without the pattern: the empty set
\* when the line has not this shape.
ShapeOf(line) ==
    LET n == Len(line)
        Commas(p) == {q \in p..n : line[q] = 44}
        p1 == Len(SenderLit) + 2
        q1 == Min(Commas(p1))
        p2 == q1 + 2 + Len(TimestampLit) + 1
        q2 == Min(Commas(p2))
        p3 == q2 + 2 + Len(MessageLit) + 1
    IN  IF /\ LitAt(line, 1, SenderLit \o <<32>>)
           /\ Commas(p1) # {}
           /\ LitAt(line, q1, <<44, 32>> \o TimestampLit \o <<32>>)
           /\ Commas(p2) # {}
           /\ LitAt(line, q2, <<44, 32>> \o MessageLit \o <<32>>)
        THEN {[s |-> Slice(line, p1, q1), t |-> Slice(line, p2, q2),
               m |-> Slice(line, p3, n + 1)]}
        ELSE {}

\* C7: extract_metadata on a line "Sender: <s>, Timestamp: <t>, Message: <m>"
\* returns sender = s, timestamp = t and message = m, no part of m lost; on a
\* string without the "Sender:" prefix it returns sender and timestamp unset and
\* the whole line as the message.
C7_MetadataExtracted ==
    (op = "extract_metadata" /\ isinstance_str(arg)) =>
        /\ \A parts \in ShapeOf(arg.val) :
              /\ Same(ret.val.sender, Str(parts.s))
              /\ Same(ret.val.timestamp, Str(parts.t))
              /\ Same(ret.val.message, Str(parts.m))
        /\ ~LitAt(arg.val, 1, SenderLit) =>
              /\ ret.val.sender.type = "float"
              /\ ret.val.timestamp.type = "float"
              /\ Same(ret.val.message, arg)

\* The lines of a text, each ended by a line feed.
LinesOf(text) ==
    LET ends == {i \in 1..Len(text) : text[i] = 10}
        Kth(k) == CHOOSE i \in ends : Cardinality({j \in ends : j < i}) = k - 1
    IN  [k \in 1..Cardinality(ends) |->
           Slice(text, IF k = 1 THEN 1 ELSE Kth(k - 1) + 1, Kth(k))]

\* A line "<token> <tag>" split at its last space.
PairOf(line) ==
    LET sp == Max({i \in 1..Len(line) : line[i] = 32})
    IN  <<Slice(line, 1, sp), Slice(line, sp + 1, Len(line) + 1)>>

\* The documents read back from a CoNLL text: every blank line ends one.
ReadConll(text) ==
    LET lines == LinesOf(text)
        blanks == {i \in 1..Len(lines) : lines[i] = <<>>}
        Kth(k) == CHOOSE i \in blanks : Cardinality({j \in blanks : j < i}) = k - 1
        First(k) == IF k = 1 THEN 1 ELSE Kth(k - 1) + 1
    IN  [k \in 1..Cardinality(blanks) |->
           [i \in 1..(Kth(k) - First(k)) |-> PairOf(lines[First(k) + i - 1])]]

\* C8: after save_conll_format on labeled documents (empty ones included) the
\* file holds, per document in order, one line "<token> <tag>" per pair and then
\* one blank line: reading it back, a document ending at each blank line, gives
\* the same documents with the same pairs in the same order.
C8_ConllRoundTrip ==
    op = "save_conll_format" =>
        /\ ret.exc = "none"
        /\ file.type = "str"
        /\ ReadConll(file.val) =
              [k \in 1..Len(arg.val.rows) |->
                 [i \in 1..Len(arg.val.rows[k].Labeled.val) |->
                    <<arg.val.rows[k].Labeled.val[i][1],
                      label_chars(arg.val.rows[k].Labeled.val[i][2])>>]]

\* C9: every token preprocess returns is made of characters of U+1200..U+137F
\* only, holds no decimal digit and does not match the price pattern, and
\* label_tokens applied to what preprocess returned assigns "B-PRICE" to none.
C9_PriceRuleUnreachable ==
    /\ preprocessed.type = "list" =>
          \A i \in 1..Len(preprocessed.val) :
              /\ \A j \in 1..Len(preprocessed.val[i]) :
                    /\ preprocessed.val[i][j] \in amharic_pattern
                    /\ preprocessed.val[i][j] \notin Digits
              /\ ~re_match_price(preprocessed.val[i])
    /\ (op = "label_preprocessed" /\ ret.exc = "none" /\ ret.val.type = "list") =>
          \A i \in 1..Len(ret.val.val) : ret.val.val[i][2] # "B-PRICE"

\* The raw price 1ብር went through preprocess, reached the labeling call as
\* the one token ብር, and no token was tagged "B-PRICE".
C9_Witness ==
    /\ op = "label_preprocessed"
    /\ Same(arg, Str(<<49, 4709, 4653>>))
    /\ Same(preprocessed, List(<< <<4709, 4653>> >>))
    /\ ret.exc = "none" => \A i \in 1..Len(ret.val.val) : ret.val.val[i][2] # "B-PRICE"

\* C10: preprocess_dataframe returns one row per input row, in input order and
\* under the input's row labels, each row holding its own text and the sender,
\* timestamp, message and preprocessed_message computed from that text.
C10_RowsStayAligned ==
    op = "preprocess_dataframe" =>
        /\ df.val.index = arg.val.index
        /\ Len(df.val.rows) = Len(arg.val.rows)
        /\ \A i \in 1..Len(arg.val.rows) :
              LET derived == preprocess_row(arg.val.rows[i].text)
              IN  /\ Same(df.val.rows[i].text, arg.val.rows[i].text)
                  /\ Same(df.val.rows[i].sender, derived.sender)
                  /\ Same(df.val.rows[i].timestamp, derived.timestamp)
                  /\ Same(df.val.rows[i].message, derived.message)
                  /\ Same(df.val.rows[i].preprocessed_message, derived.preprocessed_message)

====
